---------------------------- MODULE Spec2Model ----------------------------
(***************************************************************************)
(* Factors over named discrete variables and their algebra (product,       *)
(* marginalization, reduction, joint distribution), modelled from          *)
(* 2-ImplementationFactor.ipynb.                                           *)
(*                                                                         *)
(* Variable identifiers are integers (numpy sorts                          *)
(* identifiers in ascending order; the integers carry that order).  A      *)
(* numpy array is a record [shape, data]: data maps every index tuple      *)
(* (0-based indexes, one per axis) to the cell's value.  Python's None is  *)
(* the empty sequence and a present value v is <<v>>.  A call's outcome is *)
(* a record: ok = TRUE with the returned value in val, or ok = FALSE with  *)
(* the raised exception's message in err.                                  *)
(***************************************************************************)
EXTENDS Integers, Sequences, FiniteSets, TLC

VARIABLES heap, call

vars == <<heap, call>>

\* ------------------------------------------------------------- bounds
\* the largest cardinality of a variable in the caller's tensors
MaxCard == 2

\* the variable identifiers the caller uses
Vars == 1..3

\* the number of factor objects the caller holds at a time
MaxHeap == 3

\* the caller's tensors of one shape start their cells at 0 .. MaxSeed
MaxSeed == 1

\* ------------------------------------------------------------- python values
None == << >>

Some(v) == <<v>>

IsNone(o) == o = << >>

Get(o) == o[1]

Return(v) == [ok |-> TRUE, val |-> <<v>>, err |-> ""]

Raise(msg) == [ok |-> FALSE, val |-> << >>, err |-> msg]

\* ------------------------------------------------------------- sequences
Range(s) == {s[i] : i \in 1..Len(s)}

NoDup(s) == \A i, j \in 1..Len(s) : s[i] = s[j] => i = j

Min(S) == CHOOSE m \in S : \A n \in S : m <= n

RECURSIVE SortedSeq(_)
SortedSeq(S) == IF S = {} THEN << >> ELSE <<Min(S)>> \o SortedSeq(S \ {Min(S)})

RECURSIVE SumSet(_, _)
SumSet(S, f) == IF S = {} THEN 0
                ELSE LET e == CHOOSE e \in S : TRUE IN f[e] + SumSet(S \ {e}, f)

\* number of True entries of a boolean array
CountTrue(mask) == Cardinality({i \in 1..Len(mask) : mask[i]})

\* position (1-based) of the first occurrence of v in s
FirstIndex(s, v) == Min({i \in 1..Len(s) : s[i] = v})

\* s with the entries at the positions in drop removed, order kept
RECURSIVE DropAt(_, _)
DropAt(s, drop) ==
    IF s = << >> THEN << >>
    ELSE LET n == Len(s)
             front == DropAt(SubSeq(s, 1, n - 1), drop)
         IN IF n \in drop THEN front ELSE Append(front, s[n])

\* ------------------------------------------------------------- numpy arrays
RECURSIVE Indices(_)
Indices(shape) ==
    IF shape = << >> THEN {<< >>}
    ELSE LET n == Len(shape)
         IN {Append(p, i) : p \in Indices(SubSeq(shape, 1, n - 1)), i \in 0..(shape[n] - 1)}

ndarray(shape, data) == [shape |-> shape, data |-> data]

ndim(a) == Len(a.shape)

\* np.array(a) of an array: a copy with the same shape and cells
np_array(a) == ndarray(a.shape, [idx \in Indices(a.shape) |-> a.data[idx]])

np_arange(n) == [k \in 1..n |-> k - 1]

\* np.isin(element, test_elements, invert): element-wise membership mask
isin(element, test_elements, invert) ==
    [i \in 1..Len(element) |-> (element[i] \in Range(test_elements)) # invert]

\* np.setdiff1d without assume_unique: the difference sorted, not in ar1's order
setdiff1d_sorted(ar1, ar2) == SortedSeq(Range(ar1) \ Range(ar2))

\* np.setdiff1d(ar1, ar2, assume_unique=True): ar1[in1d(ar1, ar2, invert=True)]
setdiff1d(ar1, ar2) ==
    DropAt(ar1, {i \in 1..Len(ar1) : ar1[i] \in Range(ar2)})

\* np.intersect1d(ar1, ar2, return_indices=True): the common values in
\* ascending order and the 0-based index of each one's first occurrence
intersect1d(ar1, ar2) ==
    LET common == SortedSeq(Range(ar1) \cap Range(ar2))
    IN  [xy  |-> common,
         in1 |-> [k \in 1..Len(common) |-> FirstIndex(ar1, common[k]) - 1],
         in2 |-> [k \in 1..Len(common) |-> FirstIndex(ar2, common[k]) - 1]]

\* arr[mask] = values: the k-th True position receives values[k]
MaskAssign(arr, mask, values) ==
    [i \in 1..Len(arr) |->
        IF mask[i] THEN values[CountTrue(SubSeq(mask, 1, i))] ELSE arr[i]]

\* arr[ind] = values: position ind[k] (0-based) receives values[k], the last
\* assignment to a position winning
IndexAssign(arr, ind, values) ==
    [i \in 1..Len(arr) |->
        LET ks == {k \in 1..Len(ind) : ind[k] = i - 1}
        IN  IF ks = {} THEN arr[i] ELSE values[CHOOSE k \in ks : \A l \in ks : l <= k]]

\* np.moveaxis(a, range(len(destination)), destination): source axis i moves
\* to position destination[i]; a negative position counts from the end; a
\* repeated position is a ValueError
moveaxis(a, destination) ==
    LET n    == ndim(a)
        dest == [i \in 1..Len(destination) |->
                    IF destination[i] < 0 THEN destination[i] + n ELSE destination[i]]
    IN  IF Len(destination) # n \/ \E i \in 1..n : dest[i] < 0 \/ dest[i] >= n
        THEN Raise("AxisError")
        ELSE IF ~NoDup(dest) THEN Raise("repeated axis in destination argument")
        ELSE LET src(k) == CHOOSE i \in 1..n : dest[i] = k - 1
                 shp    == [k \in 1..n |-> a.shape[src(k)]]
             IN  Return(ndarray(shp,
                     [idx \in Indices(shp) |-> a.data[[i \in 1..n |-> idx[dest[i] + 1]]]]))

\* a[tuple([slice(None)] * ndim(a) + [None] * k)]: k new trailing axes of extent 1
NewAxesAfter(a, k) ==
    LET shp == a.shape \o [j \in 1..k |-> 1]
    IN  ndarray(shp, [idx \in Indices(shp) |-> a.data[SubSeq(idx, 1, ndim(a))]])

\* a[tuple([None] * k + [slice(None)])]: k new leading axes of extent 1
NewAxesBefore(a, k) ==
    LET shp == [j \in 1..k |-> 1] \o a.shape
    IN  ndarray(shp, [idx \in Indices(shp) |-> a.data[SubSeq(idx, k + 1, Len(shp))]])

\* a * b with numpy broadcasting: shapes are aligned at the last axis, an
\* extent of 1 stretches, any other disagreement is a ValueError
Multiply(a, b) ==
    LET ra == ndim(a)
        rb == ndim(b)
        r  == IF ra >= rb THEN ra ELSE rb
        sa == [j \in 1..(r - ra) |-> 1] \o a.shape
        sb == [j \in 1..(r - rb) |-> 1] \o b.shape
    IN  IF \E j \in 1..r : sa[j] # sb[j] /\ sa[j] # 1 /\ sb[j] # 1
        THEN Raise("operands could not be broadcast together")
        ELSE LET shp == [j \in 1..r |-> IF sa[j] = 1 THEN sb[j] ELSE sa[j]]
                 ia(idx) == [j \in 1..ra |-> IF a.shape[j] = 1 THEN 0 ELSE idx[j + r - ra]]
                 ib(idx) == [j \in 1..rb |-> IF b.shape[j] = 1 THEN 0 ELSE idx[j + r - rb]]
             IN  Return(ndarray(shp,
                     [idx \in Indices(shp) |-> a.data[ia(idx)] * b.data[ib(idx)]]))

\* np.sum(a, axes): axes is a set of 0-based axis numbers, summed out and removed
np_sum(a, axes) ==
    LET drop == {k + 1 : k \in axes}
        shp  == DropAt(a.shape, drop)
        keep == DropAt([j \in 1..ndim(a) |-> j], drop)
        cells(idx) == {full \in Indices(a.shape) :
                          \A k \in 1..Len(keep) : full[keep[k]] = idx[k]}
    IN  ndarray(shp, [idx \in Indices(shp) |-> SumSet(cells(idx), a.data)])

\* np.sum over the axis in place of np.take
np_take_summed(a, index, axis) == Return(np_sum(a, {axis}))

\* np.take(a, index, axis): the slice at index along the 0-based axis; a
\* negative index counts from the end; outside -extent..extent-1 is an IndexError
np_take(a, index, axis) ==
    LET ext == a.shape[axis + 1]
        at  == IF index < 0 THEN index + ext ELSE index
        shp == DropAt(a.shape, {axis + 1})
        full(idx) == SubSeq(idx, 1, axis) \o <<at>> \o SubSeq(idx, axis + 1, Len(idx))
    IN  IF index >= ext \/ index < -ext
        THEN Raise("index is out of bounds for axis")
        ELSE Return(ndarray(shp, [idx \in Indices(shp) |-> a.data[full(idx)]]))

\* ------------------------------------------------------------- class factor
\* __set_data: the three private fields of a factor object
set_data(variables, distribution, shape) ==
    [variables |-> variables, distribution |-> distribution, shape |-> shape]

\* factor.__init__(variables, distribution); either argument may be None
factor(variables, distribution) ==
    IF IsNone(distribution) /\ ~IsNone(variables)
    THEN Return(set_data(Get(variables), None, None))
    ELSE IF IsNone(variables) \/ Len(Get(variables)) # Len(Get(distribution).shape)
    THEN Raise("Data is incorrect")
    ELSE Return(set_data(Get(variables),
                         Some(np_array(Get(distribution))),
                         Some(Get(distribution).shape)))

is_none(x) == IsNone(x.distribution)

get_variables(x) == x.variables

get_distribution(x) == Get(x.distribution)

get_shape(x) == Get(x.shape)

\* ------------------------------------------------------------- operations
\* the axes of x left where they are
x_ind_unmoved(xv, I) == [i \in 1..Len(xv) |-> i - 1]

\* lines 137-144: where every axis of x and of y goes in the aligned layout,
\* [x-only axes][shared axes] for x and [shared axes][y-only axes] for y
x_ind(xv, I) ==
    LET x_mask == isin(xv, I.xy, TRUE)
        init   == [i \in 1..Len(xv) |-> -1]
        own    == MaskAssign(init, x_mask, np_arange(CountTrue(x_mask)))
    IN  IndexAssign(own, I.in1, [k \in 1..Len(I.xy) |-> (k - 1) + CountTrue(x_mask)])

y_ind(yv, I) ==
    LET y_mask == isin(yv, I.xy, TRUE)
        init   == [i \in 1..Len(yv) |-> -1]
        own    == MaskAssign(init, y_mask,
                      [k \in 1..CountTrue(y_mask) |-> (k - 1) + (Len(yv) - CountTrue(y_mask))])
    IN  IndexAssign(own, I.in2, np_arange(Len(I.xy)))

\* only the first common variable compared
shapes_agree_first(x, y, I) ==
    get_shape(x)[I.in1[1] + 1] = get_shape(y)[I.in2[1] + 1]

\* line 128: np.all(x.get_shape()[xy_in_x_ind] == y.get_shape()[xy_in_y_ind])
shapes_agree(x, y, I) ==
    \A k \in 1..Len(I.xy) : get_shape(x)[I.in1[k] + 1] = get_shape(y)[I.in2[k] + 1]

factor_product(x, y) ==
    IF is_none(x) \/ is_none(y) THEN Raise("One of the factors is None")
    ELSE
    LET xv == get_variables(x)
        yv == get_variables(y)
        I  == intersect1d(xv, yv)
    IN
    IF Len(I.xy) = 0 THEN Raise("Factors do not have common variables")
    ELSE IF ~shapes_agree(x, y, I)
    THEN Raise("Common variables have different order")
    ELSE
    LET x_not_in_y == setdiff1d(xv, yv)
        y_not_in_x == setdiff1d(yv, xv)
        x_distribution == moveaxis(get_distribution(x), x_ind(xv, I))
        y_distribution == moveaxis(get_distribution(y), y_ind(yv, I))
    IN
    IF ~x_distribution.ok THEN x_distribution
    ELSE IF ~y_distribution.ok THEN y_distribution
    ELSE
    LET res_distribution ==
            Multiply(NewAxesAfter(Get(x_distribution.val), Len(y_not_in_x)),
                     NewAxesBefore(Get(y_distribution.val), Len(x_not_in_y)))
    IN
    IF ~res_distribution.ok THEN res_distribution
    ELSE factor(Some(x_not_in_y \o I.xy \o y_not_in_x), res_distribution.val)

\* the axes of the variables that stay
where_isin_inverted(xv, variables) ==
    {i - 1 : i \in {j \in 1..Len(xv) : ~isin(xv, SortedSeq(variables), FALSE)[j]}}

\* line 368: np.where(np.isin(x.get_variables(), variables))[0], the 0-based
\* axes of the variables to sum out
where_isin(xv, variables) ==
    {i - 1 : i \in {j \in 1..Len(xv) : isin(xv, SortedSeq(variables), FALSE)[j]}}

\* variables is read through np.in1d / np.isin / np.setdiff1d only, i.e. as
\* the set of its elements
factor_marginalization(x, variables) ==
    IF is_none(x) THEN Raise("Factor is None")
    ELSE IF ~(variables \subseteq Range(get_variables(x)))
    THEN Raise("Factor do not contain given variables")
    ELSE
    LET xv == get_variables(x)
        res_variables    == setdiff1d(xv, SortedSeq(variables))
        res_distribution == np_sum(get_distribution(x), where_isin(xv, variables))
    IN  factor(Some(res_variables), Some(res_distribution))

\* variable and value may be None
factor_reduction(x, variable, value) ==
    IF is_none(x) \/ IsNone(variable) \/ IsNone(value) THEN Raise("Input is None")
    ELSE
    LET xv    == get_variables(x)
        v     == Get(variable)
        where == SortedSeq({i - 1 : i \in {j \in 1..Len(xv) : xv[j] = v}})
    IN
    IF where = << >> THEN Raise("Factor do not contain given variable")
    ELSE IF Len(where) > 1
    THEN Raise("The truth value of an array with more than one element is ambiguous")
    ELSE IF Get(value) >= get_shape(x)[where[1] + 1]
    THEN Raise("Incorrect value of given variable")
    ELSE
    LET res_variables    == setdiff1d(xv, <<v>>)
        res_distribution == np_take(get_distribution(x), Get(value), where[1])
    IN
    IF ~res_distribution.ok THEN res_distribution
    ELSE factor(Some(res_variables), res_distribution.val)

\* the operands of each product swapped
RECURSIVE joint_fold_swapped(_, _)
joint_fold_swapped(res, rest) ==
    IF rest = << >> THEN Return(res)
    ELSE LET p == factor_product(Head(rest), res)
         IN  IF ~p.ok THEN p ELSE joint_fold_swapped(Get(p.val), Tail(rest))

\* a failing product swallowed: the accumulation so far is returned
RECURSIVE joint_fold_partial(_, _)
joint_fold_partial(res, rest) ==
    IF rest = << >> THEN Return(res)
    ELSE LET p == factor_product(res, Head(rest))
         IN  IF ~p.ok THEN Return(res) ELSE joint_fold_partial(Get(p.val), Tail(rest))

\* lines 530-532: res = ar[0]; for element in ar[1:]: res = factor_product(res, element)
RECURSIVE joint_fold(_, _)
joint_fold(res, rest) ==
    IF rest = << >> THEN Return(res)
    ELSE LET p == factor_product(res, Head(rest))
         IN  IF ~p.ok THEN p ELSE joint_fold(Get(p.val), Tail(rest))

joint_distribution(ar) ==
    IF \E i \in 1..Len(ar) : is_none(ar[i]) THEN Raise("Factor is None")
    ELSE IF Len(ar) = 0 THEN Raise("list index out of range")
    ELSE joint_fold(ar[1], Tail(ar))

\* ------------------------------------------------------------- caller inputs
\* all sequences over S of length exactly n / at most n
RECURSIVE SeqsOfLen(_, _)
SeqsOfLen(S, n) ==
    IF n = 0 THEN {<< >>} ELSE {Append(p, e) : p \in SeqsOfLen(S, n - 1), e \in S}

SeqsUpTo(S, n) == UNION {SeqsOfLen(S, k) : k \in 0..n}

\* row-major offset of an index tuple
RECURSIVE Pos(_, _)
Pos(shape, idx) ==
    IF shape = << >> THEN 0
    ELSE LET n == Len(shape)
         IN  Pos(SubSeq(shape, 1, n - 1), SubSeq(idx, 1, n - 1)) * shape[n] + idx[n]

\* the caller's tensors: the cells of a tensor are all distinct, seed +
\* row-major offset
Gen(shape, seed) == ndarray(shape, [idx \in Indices(shape) |-> seed + Pos(shape, idx)])

Seeds == 0..MaxSeed

Arrays(maxRank) ==
    {Gen(shape, seed) : shape \in SeqsUpTo(1..MaxCard, maxRank), seed \in Seeds}

\* the factors the constructor accepts among given variable sequences and tensors
FactorsFrom(variables, arrays) ==
    LET outs == {factor(Some(v), d) :
                    v \in variables, d \in {None} \cup {Some(a) : a \in arrays}}
    IN  {Get(o.val) : o \in {q \in outs : q.ok}}

\* factors over distinct identifiers, up to a rank
Factors(maxRank) ==
    FactorsFrom({w \in SeqsUpTo(Vars, maxRank) : NoDup(w)}, Arrays(maxRank))

\* ------------------------------------------------------------- calls
\* the arguments of a call that are not factors
NoInputs == [variables |-> {}, variable |-> None, value |-> None, init |-> None]

NoCall ==
    [op |-> "none", args |-> << >>, inputs |-> NoInputs,
     ok |-> FALSE, err |-> "", ret |-> 0, pre |-> << >>]

\* the caller receives the outcome: a returned factor that is not one of the
\* objects already on the heap is a new object; alias > 0 names the existing
\* object the call returned
Finish(op, args, inputs, out, alias) ==
    /\ heap' = IF out.ok /\ alias = 0 THEN Append(heap, Get(out.val)) ELSE heap
    /\ call' = [op |-> op, args |-> args, inputs |-> inputs,
                ok |-> out.ok, err |-> out.err,
                ret |-> IF ~out.ok THEN 0 ELSE IF alias # 0 THEN alias ELSE Len(heap) + 1,
                pre |-> heap]

\* factor(variables, distribution) called by the user
New(variables, distribution) ==
    Finish("factor", << >>, [NoInputs EXCEPT !.init = Some(<<variables, distribution>>)],
           factor(variables, distribution), 0)

Product(i, j) ==
    Finish("factor_product", <<i, j>>, NoInputs, factor_product(heap[i], heap[j]), 0)

Marginalization(i, variables) ==
    Finish("factor_marginalization", <<i>>, [NoInputs EXCEPT !.variables = variables],
           factor_marginalization(heap[i], variables), 0)

Reduction(i, variable, value) ==
    Finish("factor_reduction", <<i>>,
           [NoInputs EXCEPT !.variable = variable, !.value = value],
           factor_reduction(heap[i], variable, value), 0)

\* res is returned as it was before the loop, the object ar[0]
joint_returns_first(ids) == IF Len(ids) >= 1 THEN ids[1] ELSE 0

\* lines 530-534: with a single element no product is made and res, the
\* object ar[0] itself, is returned; otherwise the last product's new factor
joint_returns(ids) == IF Len(ids) = 1 THEN ids[1] ELSE 0

Joint(ids) ==
    Finish("joint_distribution", ids, NoInputs,
           joint_distribution([k \in 1..Len(ids) |-> heap[ids[k]]]), joint_returns(ids))

\* ------------------------------------------------------------- product of two factors
InitProduct ==
    /\ heap \in [1..2 -> Factors(Cardinality(Vars))]
    /\ call = NoCall

NextProduct == Len(heap) = 2 /\ Product(1, 2)

SpecProduct == InitProduct /\ [][NextProduct]_vars

\* ------------------------------------------------------------- reading a call
\* the factors passed to the last call and the factor it returned
Arg(k) == call.pre[call.args[k]]

Ret == heap[call.ret]

Scope(f) == Range(f.variables)

\* cardinality of variable v in factor f (f non-empty, v in its scope)
CardOf(f, v) == Get(f.shape)[FirstIndex(f.variables, v)]

\* all assignments of value indexes to the variables in scope, card[v] values each
AssignmentsOf(scope, card) ==
    {a \in [scope -> 0..(MaxCard - 1)] : \A v \in scope : a[v] < card[v]}

Assignments(f) == AssignmentsOf(Scope(f), [v \in Scope(f) |-> CardOf(f, v)])

\* the value of factor f at assignment a (a may assign more variables than f has)
Value(f, a) ==
    Get(f.distribution).data[[i \in 1..Len(f.variables) |-> a[f.variables[i]]]]

\* s without the elements of S, order kept
Without(s, S) == LET keep(e) == e \notin S IN SelectSeq(s, keep)

Shared(x, y) == Scope(x) \cap Scope(y)

\* x and y can be multiplied: both non-empty, a variable in common, and every
\* common variable with the same cardinality in both
Multipliable(x, y) ==
    /\ ~IsNone(x.distribution) /\ ~IsNone(y.distribution)
    /\ Shared(x, y) # {}
    /\ \A v \in Shared(x, y) : CardOf(x, v) = CardOf(y, v)

\* the cardinality of v in the product of x and y
JointCard(x, y) ==
    [v \in Scope(x) \cup Scope(y) |-> IF v \in Scope(x) THEN CardOf(x, v) ELSE CardOf(y, v)]

IsProductCall == call.op = "factor_product"

\* C1: for non-empty factors x and y that share a variable and agree on the
\* cardinality of every shared variable, factor_product(x, y) returns a factor
\* over the union of their variables whose value at every joint assignment is
\* x's value times y's value at that assignment, variables matched by name
\* whatever the axis order of x and y.
C1_ProductValues ==
    (IsProductCall /\ Multipliable(Arg(1), Arg(2))) =>
        /\ call.ok
        /\ Scope(Ret) = Scope(Arg(1)) \cup Scope(Arg(2))
        /\ NoDup(Ret.variables)
        /\ \A v \in Scope(Ret) : CardOf(Ret, v) = JointCard(Arg(1), Arg(2))[v]
        /\ \A a \in AssignmentsOf(Scope(Arg(1)) \cup Scope(Arg(2)), JointCard(Arg(1), Arg(2))) :
              Value(Ret, a) = Value(Arg(1), a) * Value(Arg(2), a)

\* a product of two rank-3 factors with two shared variables that x holds in
\* descending order and y in ascending order, on distinct axes
C1_Witness ==
    /\ IsProductCall /\ call.ok
    /\ Arg(1).variables = <<3, 2, 1>> /\ Arg(2).variables = <<2, 3, 1>>
    /\ Get(Arg(1).shape) = <<2, 1, 2>>
    /\ \E a \in Assignments(Ret) : Value(Ret, a) > 1

\* C2: the result's variables are x_only ++ shared ++ y_only: the variables only
\* in x in x's order, the shared variables in ascending identifier order, the
\* variables only in y in y's order; axis i of the result tensor has the
\* cardinality of the i-th variable.
C2_ProductVariableOrder ==
    (IsProductCall /\ call.ok) =>
        LET x == Arg(1)
            y == Arg(2)
            x_only == Without(x.variables, Scope(y))
            y_only == Without(y.variables, Scope(x))
            n1 == Len(x_only)
            n2 == Cardinality(Shared(x, y))
            rv == Ret.variables
        IN  /\ Len(rv) = n1 + n2 + Len(y_only)
            /\ SubSeq(rv, 1, n1) = x_only
            /\ Range(SubSeq(rv, n1 + 1, n1 + n2)) = Shared(x, y)
            /\ \A i, j \in (n1 + 1)..(n1 + n2) : i < j => rv[i] < rv[j]
            /\ SubSeq(rv, n1 + n2 + 1, Len(rv)) = y_only
            /\ \A i \in 1..Len(rv) :
                  /\ Get(Ret.shape)[i] = JointCard(x, y)[rv[i]]
                  /\ Get(Ret.distribution).shape[i] = JointCard(x, y)[rv[i]]

\* x holds two variables of its own in descending order, and the shared
\* variable in front of them
C2_Witness ==
    /\ IsProductCall /\ call.ok
    /\ Arg(1).variables = <<1, 3, 2>> /\ Arg(2).variables = <<1>>
    /\ Ret.variables = <<3, 2, 1>>

\* C3: factor_product(x, y) raises and returns no factor when x or y is empty,
\* when they have no variable in common, or when a shared variable has
\* different cardinalities in x and y; in every other case it returns a factor.
C3_ProductFailsExactlyWhen ==
    IsProductCall =>
        /\ call.ok <=> Multipliable(Arg(1), Arg(2))
        /\ ~call.ok => (call.ret = 0 /\ heap = call.pre)
        /\ call.ok => (call.ret = Len(heap) /\ call.ret > Len(call.pre))

\* two shared variables, the first with equal cardinalities and the second not
C3_Witness ==
    /\ IsProductCall /\ ~call.ok
    /\ ~is_none(Arg(1)) /\ ~is_none(Arg(2))
    /\ {1, 2} \subseteq Shared(Arg(1), Arg(2))
    /\ CardOf(Arg(1), 1) = CardOf(Arg(2), 1)
    /\ CardOf(Arg(1), 2) # CardOf(Arg(2), 2)

\* ------------------------------------------------------------- operations on one factor
\* the value indexes the caller passes: every index of a variable, the
\* neighbouring integers on both sides, and Python's negative indexes
ValueIndexes == (-(MaxCard + 1))..(MaxCard + 1)

InitUnary ==
    /\ heap \in [1..1 -> Factors(Cardinality(Vars))]
    /\ call = NoCall

NextUnary ==
    /\ Len(heap) = 1
    /\ \/ \E variables \in SUBSET Vars : Marginalization(1, variables)
       \/ \E variable \in {None} \cup {Some(v) : v \in Vars},
             value \in {None} \cup {Some(n) : n \in ValueIndexes} :
               Reduction(1, variable, value)

SpecUnary == InitUnary /\ [][NextUnary]_vars

IsMarginalizationCall == call.op = "factor_marginalization"

IsReductionCall == call.op = "factor_reduction"

\* the assignments of x that agree with a on the variables a assigns
Extensions(x, a) == {b \in Assignments(x) : \A v \in DOMAIN a : b[v] = a[v]}

\* the sum of x's values over a set of assignments
RECURSIVE Total(_, _)
Total(x, B) ==
    IF B = {} THEN 0
    ELSE LET b == CHOOSE b \in B : TRUE IN Value(x, b) + Total(x, B \ {b})

\* C4: for a non-empty factor x and a set R of variables of x,
\* factor_marginalization(x, R) returns a factor over x's variables without
\* those of R, in their original order, whose value at every assignment of
\* the remaining variables is the sum of x's values over all assignments of
\* R; with R all of x's variables the result has no variables and its single
\* value is the sum of all entries of x.
C4_MarginalizationSums ==
    (IsMarginalizationCall /\ ~is_none(Arg(1)) /\ call.inputs.variables \subseteq Scope(Arg(1))) =>
        LET x    == Arg(1)
            rest == Scope(x) \ call.inputs.variables
        IN  /\ call.ok
            /\ Ret.variables = Without(x.variables, call.inputs.variables)
            /\ Get(Ret.shape) = [i \in 1..Len(Ret.variables) |-> CardOf(x, Ret.variables[i])]
            /\ Get(Ret.distribution).shape = Get(Ret.shape)
            /\ \A a \in AssignmentsOf(rest, [v \in rest |-> CardOf(x, v)]) :
                  Value(Ret, a) = Total(x, Extensions(x, a))
            /\ call.inputs.variables = Scope(x) =>
                  /\ Ret.variables = << >>
                  /\ Get(Ret.distribution).data[<< >>] = Total(x, Assignments(x))

\* the middle variable of a rank-3 factor with two values is summed out
C4_Witness ==
    /\ IsMarginalizationCall /\ call.ok
    /\ Arg(1).variables = <<3, 1, 2>> /\ Get(Arg(1).shape) = <<2, 2, 2>>
    /\ call.inputs.variables = {1}
    /\ Ret.variables = <<3, 2>>

\* C5: for a non-empty factor x, a variable v of x and an index i with
\* 0 <= i < cardinality of v, factor_reduction(x, v, i) returns a factor over
\* x's variables without v, in their original order, whose value at every
\* assignment of the remaining variables is x's value at that assignment
\* extended with v = i: a slice, not a sum.
C5_ReductionSlices ==
    (/\ IsReductionCall /\ ~is_none(Arg(1))
     /\ ~IsNone(call.inputs.variable) /\ ~IsNone(call.inputs.value)
     /\ Get(call.inputs.variable) \in Scope(Arg(1))
     /\ Get(call.inputs.value) >= 0
     /\ Get(call.inputs.value) < CardOf(Arg(1), Get(call.inputs.variable))) =>
        LET x    == Arg(1)
            v    == Get(call.inputs.variable)
            rest == Scope(x) \ {v}
        IN  /\ call.ok
            /\ Ret.variables = Without(x.variables, {v})
            /\ Get(Ret.shape) = [i \in 1..Len(Ret.variables) |-> CardOf(x, Ret.variables[i])]
            /\ Get(Ret.distribution).shape = Get(Ret.shape)
            /\ \A a \in AssignmentsOf(rest, [w \in rest |-> CardOf(x, w)]) :
                  Value(Ret, a) = Value(x, [w \in Scope(x) |-> IF w = v THEN Get(call.inputs.value) ELSE a[w]])

\* the middle variable of a rank-3 factor is fixed to its second value
C5_Witness ==
    /\ IsReductionCall /\ call.ok
    /\ Arg(1).variables = <<3, 1, 2>> /\ Get(Arg(1).shape) = <<2, 2, 2>>
    /\ call.inputs.variable = Some(1) /\ call.inputs.value = Some(1)
    /\ Ret.variables = <<3, 2>>

\* C6: on a non-empty factor that contains the variable, factor_reduction
\* raises and returns no factor for every value index outside
\* 0 .. cardinality - 1, and returns a factor only for the indexes inside.
C6_ReductionRejectsOutOfRange ==
    (/\ IsReductionCall /\ ~is_none(Arg(1))
     /\ ~IsNone(call.inputs.variable) /\ ~IsNone(call.inputs.value)
     /\ Get(call.inputs.variable) \in Scope(Arg(1))) =>
        (call.ok <=> (/\ Get(call.inputs.value) >= 0
                      /\ Get(call.inputs.value) < CardOf(Arg(1), Get(call.inputs.variable))))

\* ------------------------------------------------------------- joint distribution
\* the factors of a sequence passed to joint_distribution: rank 0..2, and
\* empty factors of one variable
JointFactors ==
    {f \in FactorsFrom({w \in SeqsUpTo(Vars, 2) : NoDup(w)},
                       {Gen(shape, 0) : shape \in SeqsUpTo(1..MaxCard, 2)}) :
        is_none(f) => Len(f.variables) = 1}

\* the lengths of the sequences passed to joint_distribution
JointLengths == 0..3

InitJoint ==
    /\ \E n \in JointLengths : heap \in [1..n -> JointFactors]
    /\ call = NoCall

NextJoint == call = NoCall /\ Joint([k \in 1..Len(heap) |-> k])

SpecJoint == InitJoint /\ [][NextJoint]_vars

IsJointCall == call.op = "joint_distribution"

\* the sequence of factors passed to the last call
Args == [k \in 1..Len(call.args) |-> Arg(k)]

\* every variable has one cardinality across the non-empty factors holding it
OneCardinality(fs) ==
    \A i, j \in 1..Len(fs) : \A v \in Shared(fs[i], fs[j]) :
        CardOf(fs[i], v) = CardOf(fs[j], v)

LeftNested(a, b, c) ==
    LET ab == factor_product(a, b)
    IN  IF ab.ok THEN factor_product(Get(ab.val), c) ELSE ab

RightNested(a, b, c) ==
    LET bc == factor_product(b, c)
    IN  IF bc.ok THEN factor_product(a, Get(bc.val)) ELSE bc

\* two factors with the same set of variables and the same value at every
\* assignment, whatever their axis orders
SameFactor(f, g) ==
    /\ Scope(f) = Scope(g)
    /\ \A v \in Scope(f) : CardOf(f, v) = CardOf(g, v)
    /\ \A a \in Assignments(f) : Value(f, a) = Value(g, a)

IsJointOfThree ==
    /\ IsJointCall /\ Len(call.args) = 3
    /\ \A k \in 1..3 : ~is_none(Arg(k))
    /\ OneCardinality(Args)

JointIsLeftFold ==
    LET left == LeftNested(Arg(1), Arg(2), Arg(3))
    IN  /\ call.ok = left.ok
        /\ call.ok => Ret = Get(left.val)

\* C7 as amended: joint_distribution([a, b, c]) has the outcome of
\* factor_product(factor_product(a, b), c); whenever
\* factor_product(a, factor_product(b, c)) succeeds as well, the two results
\* have the same variables and the same value at every joint assignment.
C7_JointAssociativeWhereDefined ==
    IsJointOfThree =>
        /\ JointIsLeftFold
        /\ LET right == RightNested(Arg(1), Arg(2), Arg(3))
           IN  (call.ok /\ right.ok) => SameFactor(Ret, Get(right.val))

\* both groupings succeed and lay the axes out differently
C7_Witness ==
    /\ IsJointOfThree /\ call.ok
    /\ RightNested(Arg(1), Arg(2), Arg(3)).ok
    /\ Len(Ret.variables) = 3
    /\ Get(RightNested(Arg(1), Arg(2), Arg(3)).val).variables # Ret.variables
    /\ \E a \in Assignments(Ret) : Value(Ret, a) > 1

\* C7: joint_distribution([a, b, c]) has the outcome of the left fold, and
\* factor_product(a, factor_product(b, c)) succeeds exactly when the left fold
\* succeeds, then with the same variables and values.
C7_JointAssociative ==
    IsJointOfThree =>
        /\ JointIsLeftFold
        /\ LET right == RightNested(Arg(1), Arg(2), Arg(3))
           IN  /\ right.ok <=> call.ok
               /\ (call.ok /\ right.ok) => SameFactor(Ret, Get(right.val))

\* the product of the first k factors of fs, folded from the left
RECURSIVE Prefix(_, _)
Prefix(fs, k) ==
    IF k = 1 THEN Return(fs[1])
    ELSE LET p == Prefix(fs, k - 1)
         IN  IF p.ok THEN factor_product(Get(p.val), fs[k]) ELSE p

\* C8: joint_distribution raises and returns no factor when the sequence has
\* no factor, when any element is an empty factor, or when a product of the
\* left fold fails; nothing of the accumulation is returned.
C8_JointFails ==
    (/\ IsJointCall
     /\ \/ Len(call.args) = 0
        \/ \E k \in 1..Len(call.args) : is_none(Arg(k))
        \/ \E k \in 2..Len(call.args) :
              LET p == Prefix(Args, k - 1)
              IN  p.ok /\ ~Multipliable(Get(p.val), Arg(k)))
    => (~call.ok /\ call.ret = 0 /\ heap = call.pre)

\* the first product succeeds and the second one fails
C8_Witness ==
    /\ IsJointCall /\ Len(call.args) = 3 /\ ~call.ok
    /\ \A k \in 1..3 : ~is_none(Arg(k))
    /\ Prefix(Args, 2).ok
    /\ ~Multipliable(Get(Prefix(Args, 2).val), Arg(3))

\* ------------------------------------------------------------- the caller's session
\* the identifiers of a session
SessionVars == 1..2

\* what the caller hands to the constructor: any variable sequence of up to
\* two identifiers (repeated ones included) or None, and any tensor of rank
\* 0..2 or None
NewVariables == {None} \cup {Some(v) : v \in SeqsUpTo(SessionVars, 2)}

NewDistributions ==
    {None} \cup {Some(Gen(shape, 0)) : shape \in SeqsUpTo(1..MaxCard, 2)}

Init ==
    /\ heap = << >>
    /\ call = NoCall

Next ==
    \/ \E variables \in NewVariables, distribution \in NewDistributions :
          Len(heap) + 1 < MaxHeap /\ New(variables, distribution)
    \/ \E i, j \in 1..Len(heap) :
          Len(heap) < MaxHeap /\ Product(i, j)
    \/ \E i \in 1..Len(heap), variables \in SUBSET SessionVars :
          Len(heap) < MaxHeap /\ Marginalization(i, variables)
    \/ \E i \in 1..Len(heap), variable \in SessionVars, value \in (-1)..MaxCard :
          Len(heap) < MaxHeap /\ Reduction(i, Some(variable), Some(value))
    \/ \E ids \in SeqsUpTo(1..Len(heap), 3) :
          Len(heap) < MaxHeap /\ Joint(ids)

Spec == Init /\ [][Next]_vars

\* the data-model invariants of a factor
WellFormed(f) ==
    /\ NoDup(f.variables)
    /\ ~IsNone(f.distribution) =>
          /\ Len(f.variables) = Len(Get(f.distribution).shape)
          /\ ~IsNone(f.shape)
          /\ Get(f.shape) = Get(f.distribution).shape
          /\ DOMAIN Get(f.distribution).data = Indices(Get(f.shape))
    /\ IsNone(f.distribution) => IsNone(f.shape)

\* constructor arguments from which no well-formed factor can be built
BadConstructorInputs(variables, distribution) ==
    \/ IsNone(variables)
    \/ ~NoDup(Get(variables))
    \/ ~IsNone(distribution) /\ Len(Get(variables)) # Len(Get(distribution).shape)

\* C9: every factor that exists, accepted by the constructor or returned by
\* any sequence of operations, has no duplicate variable, has as many
\* variables as its tensor has axes with shape equal to the tensor's extents,
\* and has no shape when it has no tensor; constructor inputs that would
\* violate this are rejected.
C9_FactorInvariants ==
    /\ \A i \in 1..Len(heap) : WellFormed(heap[i])
    /\ call.op = "factor" =>
          (BadConstructorInputs(Get(call.inputs.init)[1], Get(call.inputs.init)[2])
              => ~call.ok)

\* ------------------------------------------------------------- one call on given factors
\* the caller holds one or two factors and makes one call of an operation on
\* them, in any combination of arguments
InitCall ==
    /\ \E n \in 1..2 : heap \in [1..n -> JointFactors]
    /\ call = NoCall

NextCall ==
    /\ call = NoCall
    /\ \/ \E i, j \in 1..Len(heap) : Product(i, j)
       \/ \E i \in 1..Len(heap), variables \in SUBSET Vars : Marginalization(i, variables)
       \/ \E i \in 1..Len(heap), variable \in Vars, value \in (-1)..MaxCard :
             Reduction(i, Some(variable), Some(value))
       \/ \E ids \in SeqsUpTo(1..Len(heap), 3) : Joint(ids)

SpecCall == InitCall /\ [][NextCall]_vars

IsOperationCall ==
    call.op \in {"factor_product", "factor_marginalization", "factor_reduction",
                 "joint_distribution"}

InputsUnchanged == \A i \in 1..Len(call.pre) : heap[i] = call.pre[i]

ReturnsNewObject ==
    /\ call.ret = Len(call.pre) + 1
    /\ Len(heap) = Len(call.pre) + 1
    /\ call.ret \notin Range(call.args)

=============================================================================
